---- MODULE Spec2Model ----
(***************************************************************************)
(* Model of the mlserve serving layer: the FastAPI front door              *)
(* (src/src/api), the ModelRegistry deployment and the start-up sequence   *)
(* (src/src/services/ray_serve.py).                                        *)
(*                                                                         *)
(* The registry is a Ray Serve deployment declared with min_replicas 1 and *)
(* max_replicas 2; every replica is one ModelRegistry object with its own  *)
(* in-memory dictionaries.  A call through the registry handle is served   *)
(* by whichever live replica the serving runtime picks.  The model         *)
(* deployment behind a handle is opaque: an invocation ends with a result  *)
(* or with an exception of some type.                                      *)
(***************************************************************************)
EXTENDS Integers, Sequences, FiniteSets, TLC

\* ---------------------------------------------------------------- bounds
MaxReq == 1            \* concurrent POST /predict requests
MaxCfg == 2            \* largest replica count / target tried in a configuration
MaxDeps == 2           \* deployments the runtime lists for GET /ray/status

\* ------------------------------------------------------ program constants
RegistryMinReplicas == 1
RegistryMaxReplicas == 2

\* --------------------------------------------------------------- domains
Names    == {"resnet18", "vit"}        \* model names callers use
Handles  == {"h_resnet", "h_other"}    \* deployment handles (truthy objects)
Infos    == {"info_a", "info_b"}       \* metadata dictionaries
\* what callers of register_model pass as (model_handle, info)
Payloads == {<<"h_resnet", "info_a">>, <<"h_other", "info_b">>}
ExcTypes == {"ValueError", "RuntimeError"}   \* what a model replica may raise
ReqIds   == 1..MaxReq
RegIds   == 1..RegistryMaxReplicas
None     == "None"

VARIABLES
    phase,            \* lifespan of the front door: "stopped" | "serving"
    serveUp,          \* the serving runtime holds the "registry" app
    live,             \* running replicas of the ModelRegistry deployment
    models,           \* models[r]: self.models of replica r, in insertion order
    model_info,       \* model_info[r]: self.model_info of replica r
    cached,           \* _registry_handle: "none", or a handle of the "current"
                      \* run of the runtime, or a "stale" one of an earlier run
    req,              \* req[q]: one POST /predict request and its response
    lastReg,          \* outcome of the latest register_model call
    regOK,            \* names whose register_model call returned (history)
    regOrder,         \* the same names, in the order of their first register
    listed,           \* the latest GET /models response
    cfg,              \* a deployment configuration handed to the validators
    verdict,          \* what constructing cfg ended with
    rs                \* one GET /ray/status call: runtime outcomes and answer

vars == <<phase, serveUp, live, models, model_info, cached, req, lastReg, regOK, regOrder>>

\* Variables the serving actions leave alone.
aux == <<listed, cfg, verdict, rs>>

allvars == <<vars, regOrder, aux>>

\* --------------------------------------------------- Python dictionaries
\* A dict is the sequence of its items in insertion order.
Item(k, v) == [k |-> k, v |-> v]

DictKeys(d) == {d[i].k : i \in 1..Len(d)}

\* d.get(k): the value stored under k, None when k is absent.
DictGet(d, k) ==
    IF k \in DictKeys(d)
    THEN d[CHOOSE i \in 1..Len(d) : d[i].k = k].v
    ELSE None

\* d[k] = v: an existing key keeps its position and takes the new value,
\* a new key goes to the end.
DictSet(d, k, v) ==
    IF k \in DictKeys(d)
    THEN [i \in 1..Len(d) |-> IF d[i].k = k THEN Item(k, v) ELSE d[i]]
    ELSE Append(d, Item(k, v))

\* ------------------------------------------------------- ModelRegistry
\* ModelRegistry.__init__: both dictionaries start empty.
EmptyRegistry == << >>

\* A get_model that falls back to the default model when the name is absent.
get_model_default(r, name) ==
    IF name \in DictKeys(models[r])
    THEN DictGet(models[r], name)
    ELSE DictGet(models[r], "resnet18")

\* ModelRegistry.get_model
get_model(r, name) == DictGet(models[r], name)

\* ModelRegistry.list_models: one entry per item of model_info, in its order.
list_models(r) == [i \in 1..Len(model_info[r]) |->
                      [name |-> model_info[r][i].k, info |-> model_info[r][i].v]]

\* ModelRegistry.register_model on a replica's dictionaries: two stores, no
\* check of what is already there.
register_models(d, name, handle) == DictSet(d, name, handle)

register_info(d, name, info) == DictSet(d, name, info)

\* ------------------------------------------------------------- requests
\* pc: "idle" (holding the previous response, if any) or "awaiting" (the
\* registry replica waits for the model's answer).  calls counts the
\* invocations of a model handle made for the request.
IdleReq == [pc |-> "idle", name |-> None, calls |-> 0,
            cause |-> None, status |-> 0]

\* The except clauses of the /predict handler: ValueError is answered 404,
\* every other exception 500.
StatusOf(exc) ==
    IF exc = None THEN 200
    ELSE IF exc = "ValueError" THEN 404
    ELSE 500

\* An answer that sends the request to the model once more after a replica
\* failure.
AnsweredRetry(r, exc, cause) ==
    IF cause = "InferenceError" /\ r.calls < 2
    THEN [r EXCEPT !.pc = "awaiting", !.calls = @ + 1]
    ELSE [r EXCEPT !.pc = "idle", !.cause = cause, !.status = StatusOf(exc)]

\* The request record once the handler has answered.
Answered(r, exc, cause) ==
    [r EXCEPT !.pc = "idle", !.cause = cause, !.status = StatusOf(exc)]

\* GET /models has not been called.
NoList == [status |-> 0, models |-> << >>]

\* The defaults of AutoscalingConfig and DeploymentConfig (seconds as whole
\* numbers).
DefaultConfig == [min_replicas |-> 1, max_replicas |-> 3, target |-> 10,
                  upscale_delay |-> 3, downscale_delay |-> 30,
                  health_check_period |-> 10, health_check_timeout |-> 30,
                  graceful_shutdown_timeout |-> 20]

\* GET /ray/status has not been called.
NoStatusCall == [pc |-> "none"]

\* ----------------------------------------------------------------- Init
InitServing ==
    /\ phase = "stopped"
    /\ serveUp = FALSE
    /\ live = {}
    /\ models = [r \in RegIds |-> EmptyRegistry]
    /\ model_info = [r \in RegIds |-> EmptyRegistry]
    /\ cached = "none"
    /\ req = [q \in ReqIds |-> IdleReq]
    /\ lastReg = [had |-> FALSE, result |-> None]
    /\ regOK = {}
    /\ regOrder = << >>

Init ==
    /\ InitServing
    /\ listed = NoList
    /\ cfg = DefaultConfig
    /\ verdict = "pending"
    /\ rs = NoStatusCall

\* ------------------------------------------------------------ lifespan
\* lifespan start-up: init_ray_serve starts the runtime, runs the ResNet and
\* the registry deployments and registers "resnet18" on the registry.  A
\* handle cached during an earlier run stays in _registry_handle.
Startup ==
    /\ phase = "stopped"
    /\ phase' = "serving"
    /\ serveUp' = TRUE
    /\ live' = {1}
    /\ models' = [r \in RegIds |->
                    IF r = 1
                    THEN register_models(EmptyRegistry, "resnet18", "h_resnet")
                    ELSE EmptyRegistry]
    /\ model_info' = [r \in RegIds |->
                    IF r = 1
                    THEN register_info(EmptyRegistry, "resnet18", "info_a")
                    ELSE EmptyRegistry]
    /\ lastReg' = [had |-> FALSE, result |-> "ok"]
    /\ regOK' = {"resnet18"}
    /\ regOrder' = <<"resnet18">>
    /\ UNCHANGED <<cached, req>>
    /\ UNCHANGED aux

\* What is left of the runtime's state once it is gone.
RuntimeGone ==
    /\ serveUp' = FALSE
    /\ live' = {}
    /\ models' = [r \in RegIds |-> EmptyRegistry]
    /\ model_info' = [r \in RegIds |-> EmptyRegistry]
    /\ lastReg' = [had |-> FALSE, result |-> None]
    /\ regOK' = {}
    /\ regOrder' = << >>
    /\ cached' = IF cached = "none" THEN "none" ELSE "stale"

\* lifespan shutdown: shutdown_ray_serve removes every deployment.  The
\* module global _registry_handle is not reset.
Shutdown ==
    /\ phase = "serving"
    /\ \A q \in ReqIds : req[q].pc = "idle"
    /\ phase' = "stopped"
    /\ RuntimeGone
    /\ UNCHANGED req
    /\ UNCHANGED aux

\* The detached serving runtime goes away while the front door keeps
\* serving (the case get_registry_handle's except clause answers).  Calls
\* waiting on a model replica end with the runtime's error.
ServeDown ==
    /\ phase = "serving"
    /\ serveUp
    /\ RuntimeGone
    /\ req' = [q \in ReqIds |->
                 IF req[q].pc = "awaiting"
                 THEN Answered(req[q], "RayServeError", "ServiceUnavailable")
                 ELSE req[q]]
    /\ UNCHANGED phase
    /\ UNCHANGED aux

\* ------------------------------------------- the registry deployment
\* A register_model call through the registry handle, served by replica r.
RegisterModel(r, name, handle, info) ==
    /\ serveUp
    /\ r \in live
    /\ models' = [models EXCEPT ![r] = register_models(@, name, handle)]
    /\ model_info' = [model_info EXCEPT ![r] = register_info(@, name, info)]
    /\ lastReg' = [had |-> name \in DictKeys(models[r]), result |-> "ok"]
    /\ regOK' = regOK \cup {name}
    /\ regOrder' = IF name \in regOK THEN regOrder ELSE Append(regOrder, name)
    /\ UNCHANGED <<phase, serveUp, live, cached, req>>
    /\ UNCHANGED aux

\* The runtime adds a replica of ModelRegistry (autoscaling_config allows up
\* to max_replicas): a new object, constructed by __init__.
ScaleUp(r) ==
    /\ serveUp
    /\ r \in RegIds \ live
    /\ Cardinality(live) < RegistryMaxReplicas
    /\ live' = live \cup {r}
    /\ models' = [models EXCEPT ![r] = EmptyRegistry]
    /\ model_info' = [model_info EXCEPT ![r] = EmptyRegistry]
    /\ UNCHANGED <<phase, serveUp, cached, req, lastReg, regOK, regOrder>>
    /\ UNCHANGED aux

\* The runtime removes a replica, never going below min_replicas; the object
\* and its dictionaries are gone (calls it is serving are drained first).
ScaleDown(r) ==
    /\ serveUp
    /\ r \in live
    /\ Cardinality(live) > RegistryMinReplicas
    /\ live' = live \ {r}
    /\ models' = [models EXCEPT ![r] = EmptyRegistry]
    /\ model_info' = [model_info EXCEPT ![r] = EmptyRegistry]
    /\ UNCHANGED <<phase, serveUp, cached, req, lastReg, regOK, regOrder>>
    /\ UNCHANGED aux

\* ------------------------------------------------------- POST /predict
\* get_registry_handle: the cached handle when there is one, otherwise
\* serve.get_app_handle("registry"), which raises while the runtime is down.
LookupFails == cached = "none" /\ ~serveUp

\* A get_registry_handle that asks the runtime on every request.
get_registry_handle_fresh == IF serveUp THEN "current" ELSE cached

get_registry_handle == IF cached = "none" THEN "current" ELSE cached

\* The dependency fails: 503, _registry_handle stays unset, the handler body
\* does not run.
HttpPredictNoHandle(q, name) ==
    /\ phase = "serving"
    /\ req[q].pc = "idle"
    /\ LookupFails
    /\ req' = [req EXCEPT ![q] = [IdleReq EXCEPT !.name = name,
                  !.cause = "ServiceUnavailable", !.status = 503]]
    /\ UNCHANGED <<phase, serveUp, live, models, model_info, cached,
                   lastReg, regOK, regOrder>>
    /\ UNCHANGED aux

\* registry.predict.remote reaches no replica: the runtime is down, or the
\* cached handle belongs to an earlier run.  The handler's last except
\* clause answers.
HttpPredictCallFails(q, name) ==
    /\ phase = "serving"
    /\ req[q].pc = "idle"
    /\ ~LookupFails
    /\ ~serveUp \/ cached = "stale"
    /\ cached' = get_registry_handle
    /\ req' = [req EXCEPT ![q] =
                 Answered([IdleReq EXCEPT !.name = name],
                          "RayServeError", "ServiceUnavailable")]
    /\ UNCHANGED <<phase, serveUp, live, models, model_info, lastReg, regOK, regOrder>>
    /\ UNCHANGED aux

\* ModelRegistry.predict for the request, on the registry replica r the
\* runtime picked: look the model up, raise ValueError when there is none
\* (the handler answers it), otherwise invoke the model's handle and wait.
predict(q, name, r) ==
    LET model == get_model(r, name) IN
    IF model = None
    THEN Answered([IdleReq EXCEPT !.name = name], "ValueError", "NotFound")
    ELSE [IdleReq EXCEPT !.pc = "awaiting", !.name = name, !.calls = 1]

HttpPredict(q, name, r) ==
    /\ phase = "serving"
    /\ req[q].pc = "idle"
    /\ ~LookupFails
    /\ serveUp
    /\ r \in live
    /\ cached' = get_registry_handle
    /\ req' = [req EXCEPT ![q] = predict(q, name, r)]
    /\ UNCHANGED <<phase, serveUp, live, models, model_info, lastReg, regOK, regOrder>>
    /\ UNCHANGED aux

\* The invoked model deployment answers: a response, an exception raised by
\* the replica's computation (ResNetModel.__call__ re-raises whatever it
\* caught), or the runtime's own error when no replica can take the call.
ModelReturn(q, out) ==
    /\ req[q].pc = "awaiting"
    /\ req' = [req EXCEPT ![q] =
                 Answered(@, out,
                          IF out = None THEN None
                          ELSE IF out \in ExcTypes THEN "InferenceError"
                          ELSE "ServiceUnavailable")]
    /\ UNCHANGED <<phase, serveUp, live, models, model_info, cached,
                   lastReg, regOK, regOrder>>
    /\ UNCHANGED aux

Next ==
    \/ Startup
    \/ Shutdown
    \/ ServeDown
    \/ \E r \in RegIds, n \in Names, p \in Payloads :
          RegisterModel(r, n, p[1], p[2])
    \/ \E r \in RegIds : ScaleUp(r)
    \/ \E r \in RegIds : ScaleDown(r)
    \/ \E q \in ReqIds, n \in Names : HttpPredictNoHandle(q, n)
    \/ \E q \in ReqIds, n \in Names : HttpPredictCallFails(q, n)
    \/ \E q \in ReqIds, n \in Names, r \in RegIds : HttpPredict(q, n, r)
    \/ \E q \in ReqIds, out \in {None} \cup ExcTypes \cup {"RayServeError"} :
          ModelReturn(q, out)

Spec == Init /\ [][Next]_allvars

\* --------------------------------------------------------- GET /models
\* The dependency get_registry_handle fails: 503.
HttpListNoHandle ==
    /\ phase = "serving"
    /\ LookupFails
    /\ listed' = [status |-> 503, models |-> << >>]
    /\ UNCHANGED <<vars, regOrder, cfg, verdict, rs>>

\* registry.list_models.remote reaches no replica; the handler's except
\* clause answers 503.
HttpListCallFails ==
    /\ phase = "serving"
    /\ ~LookupFails
    /\ ~serveUp \/ cached = "stale"
    /\ cached' = get_registry_handle
    /\ listed' = [status |-> 503, models |-> << >>]
    /\ UNCHANGED <<phase, serveUp, live, models, model_info, req, lastReg,
                   regOK, regOrder, cfg, verdict, rs>>

\* The call is served by registry replica r: {"models": list_models()}.
HttpList(r) ==
    /\ phase = "serving"
    /\ ~LookupFails
    /\ serveUp
    /\ r \in live
    /\ cached' = get_registry_handle
    /\ listed' = [status |-> 200, models |-> list_models(r)]
    /\ UNCHANGED <<phase, serveUp, live, models, model_info, req, lastReg,
                   regOK, regOrder, cfg, verdict, rs>>

NextList ==
    \/ Startup
    \/ Shutdown
    \/ ServeDown
    \/ \E r \in RegIds, n \in Names, p \in Payloads :
          RegisterModel(r, n, p[1], p[2])
    \/ \E r \in RegIds : ScaleUp(r)
    \/ \E r \in RegIds : ScaleDown(r)
    \/ HttpListNoHandle
    \/ HttpListCallFails
    \/ \E r \in RegIds : HttpList(r)

SpecList == Init /\ [][NextList]_allvars

\* ------------------------------------------- deployment configuration
\* The configurations tried: replica counts and target from 0, durations
\* around zero (seconds as whole numbers).
CountVals == 0..MaxCfg

DurationVals == {-1, 0, 1}

Configs == [min_replicas : CountVals, max_replicas : CountVals,
            target : CountVals,
            upscale_delay : DurationVals, downscale_delay : DurationVals,
            health_check_period : DurationVals,
            health_check_timeout : DurationVals,
            graceful_shutdown_timeout : DurationVals]

\* AutoscalingConfig: the Field constraints ge=1, ge=1, ge=1, ge=0, ge=0;
\* no constraint relates max_replicas to min_replicas.
AutoscalingConfigValid(c) ==
    /\ c.min_replicas >= 1
    /\ c.max_replicas >= 1
    /\ c.target >= 1
    /\ c.upscale_delay >= 0
    /\ c.downscale_delay >= 0

\* DeploymentConfig: its nested AutoscalingConfig and the Field constraints
\* ge=1, ge=1, ge=0 of the health-check and shutdown durations.
DeploymentConfigValid(c) ==
    /\ AutoscalingConfigValid(c)
    /\ c.health_check_period >= 1
    /\ c.health_check_timeout >= 1
    /\ c.graceful_shutdown_timeout >= 0

\* Constructing the configuration object: pydantic accepts it or raises
\* ValidationError.
Validate ==
    /\ verdict = "pending"
    /\ verdict' = IF DeploymentConfigValid(cfg) THEN "accepted"
                  ELSE "ValidationError"
    /\ UNCHANGED <<vars, regOrder, listed, cfg, rs>>

InitConfig ==
    /\ InitServing
    /\ listed = NoList
    /\ cfg \in Configs
    /\ verdict = "pending"
    /\ rs = NoStatusCall

NextConfig == Validate

SpecConfig == InitConfig /\ [][NextConfig]_allvars

\* ------------------------------------------------------ GET /ray/status
\* What the runtime calls of one ray_status call do: ray.is_initialized
\* answers or raises, ray.cluster_resources and ray.available_resources
\* answer or raise, serve.list_deployments answers, raises, or answers with
\* entries whose attributes cannot be read.
StatusEnvs == [init : {"true", "false", "raise"},
               res : {"ok", "raise"},
               avail : {"ok", "raise"},
               dep : {"ok", "raise", "bad_info"},
               ndep : 0..MaxDeps]

NoPayload == [status |-> None, ray_initialized |-> None,
              serve |-> None, deployments |-> 0]

Returned(payload) == [raised |-> FALSE, payload |-> payload]

Raising == [raised |-> TRUE, payload |-> NoPayload]

\* The inner try: serve_status becomes "running" once list_deployments has
\* answered; an exception there or in the comprehension is passed over and
\* leaves deployments empty.
serve_status(env) == IF env.dep = "raise" THEN "not_started" ELSE "running"

deployments(env) ==
    IF env.dep = "ok" THEN env.ndep ELSE 0

\* The body of the outer try.
ray_status_try(env) ==
    IF env.init = "raise" THEN Raising
    ELSE IF env.init = "false"
    THEN Returned([NoPayload EXCEPT !.status = "not_initialized",
                                    !.ray_initialized = "false"])
    ELSE IF env.res = "raise" \/ env.avail = "raise" THEN Raising
    ELSE Returned([status |-> "running", ray_initialized |-> "true",
                   serve |-> serve_status(env),
                   deployments |-> deployments(env)])

\* A ray_status without the outer except.
ray_status_unguarded(env) == ray_status_try(env)

\* ray_status: the outer except turns any exception into the error payload.
ray_status(env) ==
    LET out == ray_status_try(env) IN
    IF out.raised
    THEN Returned([NoPayload EXCEPT !.status = "error"])
    ELSE out

RayStatus ==
    /\ rs.pc = "called"
    /\ rs' = [pc |-> "done", env |-> rs.env, out |-> ray_status(rs.env)]
    /\ UNCHANGED <<vars, regOrder, listed, cfg, verdict>>

InitStatus ==
    /\ InitServing
    /\ listed = NoList
    /\ cfg = DefaultConfig
    /\ verdict = "pending"
    /\ rs \in [pc : {"called"}, env : StatusEnvs]

NextStatus == RayStatus

SpecStatus == InitStatus /\ [][NextStatus]_allvars

\* ======================================================== the claims
\* What a registry replica reports as live.
LiveByGet(r) == {n \in Names : get_model(r, n) # None}

LiveByList(r) == {list_models(r)[i].name : i \in 1..Len(list_models(r))}

\* C1: after any sequence of register calls the names the registry reports
\* as live, through whichever replica answers get_model, predict or
\* list_models, are exactly the names whose register call succeeded (the
\* code has no deregister, so none was removed).
C1_LiveSetMatchesCalls ==
    \A r \in live : LiveByGet(r) = regOK /\ LiveByList(r) = regOK

\* C2: a register call for a name that is already registered fails with
\* AlreadyRegistered, and no step replaces the handle or the metadata stored
\* under a name of a running registry object.
C2_ExistingEntryKept ==
    [][/\ lastReg'.had => lastReg'.result = "AlreadyRegistered"
       /\ \A r \in live \cap live' : \A n \in DictKeys(models[r]) :
            /\ DictGet(models'[r], n) = DictGet(models[r], n)
            /\ DictGet(model_info'[r], n) = DictGet(model_info[r], n)]_vars

\* C3: a dispatch (ModelRegistry.predict) for a name no register call has
\* ever stored is answered NotFound, invokes no model handle and leaves the
\* registry's replicas, their tables and the other requests as they were.
C3_UnknownDispatchNotFound ==
    [][\A q \in ReqIds :
         ( /\ req[q].pc = "idle"
           /\ req'[q] # req[q]
           /\ req'[q].name \notin regOK
           /\ req'[q].pc = "awaiting" \/ req'[q].cause = "NotFound" )
         => /\ req'[q].pc = "idle"
            /\ req'[q].cause = "NotFound"
            /\ req'[q].calls = 0
            /\ live' = live
            /\ models' = models
            /\ model_info' = model_info
            /\ \A p \in ReqIds \ {q} : req'[p] = req[p]]_vars

\* C3 witness: a request for a never-registered name has been answered
\* NotFound while the registry holds a model.
C3_Witness ==
    \E q \in ReqIds, r \in live :
        /\ req[q].pc = "idle"
        /\ req[q].cause = "NotFound"
        /\ req[q].name \notin regOK
        /\ DictKeys(models[r]) # {}

\* C4: every failure of POST /predict maps to one error kind: 404 only for
\* an unregistered model, 503 only when nothing can serve, and a failure of
\* the replica's own computation, whatever its type, is answered 500.
C4_OneKindPerStatus ==
    \A q \in ReqIds :
        req[q].pc = "idle" =>
            /\ req[q].status = 404 => req[q].cause = "NotFound"
            /\ req[q].status = 503 => req[q].cause = "ServiceUnavailable"
            /\ req[q].cause = "InferenceError" => req[q].status = 500

\* C17: a dispatch invokes a model handle at most once: no request ever
\* counts a second invocation, and the step that ends a waiting call, with a
\* result, a replica failure or the runtime's error, answers the request
\* without invoking again.
C17_AtMostOneInvocation ==
    [][\A q \in ReqIds :
         /\ req'[q].calls <= 1
         /\ (req[q].pc = "awaiting" /\ req'[q] # req[q]) =>
                /\ req'[q].pc = "idle"
                /\ req'[q].calls = req[q].calls]_allvars

\* C17 witness: a request invoked its model once and was answered with the
\* replica's failure.
C17_Witness ==
    \E q \in ReqIds :
        /\ req[q].pc = "idle"
        /\ req[q].cause = "InferenceError"
        /\ req[q].calls = 1

\* What the specification calls an invalid configuration.
SpecInvalid(c) ==
    \/ c.max_replicas < c.min_replicas
    \/ c.min_replicas < 1
    \/ c.target < 1
    \/ \E f \in DOMAIN c : c[f] <= 0

\* C12: a configuration with max_replicas < min_replicas, min_replicas < 1,
\* target < 1 or any non-positive numeric field (a zero delay or shutdown
\* timeout included) is rejected and never accepted.
C12_InvalidConfigRejected ==
    (verdict # "pending" /\ SpecInvalid(cfg)) => verdict = "ValidationError"

\* The runtime calls from which the status is built did not all answer.
StatusUnobtainable(env) ==
    \/ env.init = "raise"
    \/ env.init = "true" /\ (env.res = "raise" \/ env.avail = "raise")

\* C16: GET /ray/status never raises, whatever the runtime calls do; it
\* returns a payload, and the payload is the error payload when the status
\* cannot be obtained.
C16_StatusNeverRaises ==
    rs.pc = "done" =>
        /\ ~rs.out.raised
        /\ rs.out.payload.status \in {"not_initialized", "running", "error"}
        /\ StatusUnobtainable(rs.env) => rs.out.payload.status = "error"

\* C16 witness: ray.cluster_resources raised and the call answered with the
\* error payload.
C16_Witness ==
    /\ rs.pc = "done"
    /\ rs.env.init = "true"
    /\ rs.env.res = "raise"
    /\ rs.out.payload.status = "error"

\* The names of a list_models answer, in its order.
ListedNames(l) == [i \in 1..Len(l.models) |-> l.models[i].name]

\* C13: list() never fails when the registry is reached, changes no registry
\* state, and returns one entry per live deployment under its registered
\* name, in the order the names were registered (empty when there is none).
C13_ListInRegistrationOrder ==
    [][listed' # listed =>
         /\ (serveUp /\ cached # "stale") => listed'.status = 200
         /\ listed'.status = 200 =>
               /\ ListedNames(listed') = regOrder
               /\ live' = live
               /\ models' = models
               /\ model_info' = model_info
               /\ regOK' = regOK]_allvars

\* C22: once register_model(name, ...) has returned, every later predict
\* for that name finds the model and every list_models answer contains it,
\* whichever replica of the ModelRegistry deployment serves the call.
C22_RegisteredSeenByEveryReplica ==
    [][/\ \A q \in ReqIds :
            (req'[q] # req[q] /\ req'[q].name \in regOK) =>
                req'[q].cause # "NotFound"
       /\ \A r \in live : regOK \subseteq LiveByList(r)]_allvars

\* C23: a failed lookup answers 503 and leaves _registry_handle unset; once
\* a lookup has succeeded the cached handle is never unset and never
\* resolved again, also when the serving layer is shut down and initialised
\* again.
C23_HandleResolvedAtMostOnce ==
    [][/\ LookupFails =>
            /\ cached' = "none"
            /\ \A q \in ReqIds : req'[q] # req[q] => req'[q].status = 503
       /\ cached = "current" => cached' \in {"current", "stale"}
       /\ cached = "stale" => cached' = "stale"]_allvars

\* C23 witness: the serving layer was initialised again after a handle had
\* been cached, and a request has gone out through that same handle.
C23_Witness ==
    /\ cached = "stale"
    /\ serveUp
    /\ \E q \in ReqIds : req[q].pc = "awaiting"

====
